---- MODULE Spec2Model ----
(***************************************************************************)
(* Phenology of a truss-bearing crop: DVS_Phenology of src/phenology.py.   *)
(*                                                                         *)
(* Numbers.  The floats DVS, DVR, DVSF and DVRF are fixed-point integers   *)
(* in units of 1/Scale of a truss; Scale is a multiple of 3 so that the    *)
(* thresholds 1/3 and 2/3 of line 131-133 are exact.  math.log is a table  *)
(* over the temperatures the driver supplies, in units of 1/LnScale.       *)
(*                                                                         *)
(* Lists.  A Python list is a function on 0..n-1, so that an index of the  *)
(* model is the index of the source.  None is the value None.              *)
(*                                                                         *)
(* Typing.  The model follows the numeric value of every expression.  Two  *)
(* places of the source do not get that far under CPython: the helpers of  *)
(* lines 77 and 88 are declared without self and are called through self   *)
(* (line 68, 72), and line 141 keeps the float s.DVS + 3 as a list index.  *)
(* The model applies the helpers to (temperature, stage) and takes the     *)
(* index of line 141 at its integer part, as int() does at lines 116, 137. *)
(***************************************************************************)
EXTENDS Integers, FiniteSets, TLC

VARIABLES
    DVS,      \* s.DVS
    DVSF,     \* s.DVSF
    DOEL,     \* s.DOEL
    DOEF,     \* s.DOEF
    DOHF,     \* s.DOHF
    DOH,      \* self._for_finalize["DOH"]
    DVR,      \* r.DVR
    DVRF,     \* r.DVRF
    day,      \* the day the driver passes to calc_rates and integrate
    TEMP,     \* drv.TEMP of the current day
    pc,       \* the driver's position: "rates", "integrate" or "aborted"
    err,      \* the exception that ended the run, or "none"
    finished, \* how many crop-finish notifications were handled
    last,     \* the operation that produced this state, with its inputs
    pre,      \* the state variables as they were before that operation
    hist,     \* the values DVS has had during the run
    start     \* the configuration the run was constructed from

vars == <<DVS, DVSF, DOEL, DOEF, DOHF, DOH, DVR, DVRF, day, TEMP, pc, err,
          finished, last, pre, hist, start>>

----------------------------------------------------------------------------
(* Bounds of the model *)

MaxDay == 4
MaxCap == 8
MaxFinish == 2
NFlower == 3
NTruss == 2
NFruit == 2

----------------------------------------------------------------------------
(* Representation *)

None == -1
Scale == 30000
LnScale == 10000

len(l) == Cardinality(DOMAIN l)
List(n, v) == [i \in 0 .. n - 1 |-> v]

\* l[i] of Python: a negative index counts from the end
Idx(l, i) == IF i < 0 THEN i + len(l) ELSE i
Has(l, i) == Idx(l, i) \in DOMAIN l

\* int(x): truncation toward zero
int(x) == IF x >= 0 THEN x \div Scale ELSE -((-x) \div Scale)

Min(a, b) == IF a < b THEN a ELSE b

----------------------------------------------------------------------------
(* Rates *)

\* math.log(x) in units of 1/LnScale, for the temperatures of the driver
Ln(T) ==
    CASE T = 5 -> 16094
      [] T = 20 -> 29957
      [] T = 10000 -> 92103
      [] OTHER -> 0

\* a domain check that lets 0 through
LogDefinedAtZero(x) == x >= 0

\* math.log raises ValueError (math domain error) unless its argument is > 0
LogDefined(x) == x > 0

\* rDVR = -0.286 + 0.1454 * math.log(drvTEMP) - 0.001 * sDVS
_dev_rate_plant(drvTEMP, sDVS) ==
    (-286 * Scale) \div 1000
    + (1454 * Ln(drvTEMP) * (Scale \div LnScale)) \div 10000
    - sDVS \div 1000

\* 0.0392 - 0.213 * x + 0.415 * x**2 - 0.24 * x**3, by Horner's rule
FruitPoly(x) ==
    LET c3 == (-240 * Scale) \div 1000
        c2 == (415 * Scale) \div 1000
        c1 == (-213 * Scale) \div 1000
        c0 == (392 * Scale) \div 10000
        h2 == (c3 * x) \div Scale + c2
        h1 == (h2 * x) \div Scale + c1
    IN  (h1 * x) \div Scale + c0

\* rDVRF = 0.0181 + math.log(drvTEMP/20) * (...)
_dev_rate_fruit(drvTEMP, sDVSF) ==
    (181 * Scale) \div 10000
    + ((Ln(drvTEMP) - Ln(20)) * FruitPoly(sDVSF)) \div LnScale

\* r.DVRF = [list(map(lambda x: self._dev_rate_fruit(drv.TEMP, x), row)) for row in s.DVSF]
FruitRates(T, sDVSF) ==
    [i \in DOMAIN sDVSF |->
        [j \in DOMAIN sDVSF[i] |-> _dev_rate_fruit(T, sDVSF[i][j])]]

----------------------------------------------------------------------------
(* The snapshot a step is compared with *)

Snapshot ==
    [DVS |-> DVS, DVSF |-> DVSF, DOEL |-> DOEL, DOEF |-> DOEF,
     DOHF |-> DOHF, DOH |-> DOH, DVR |-> DVR, DVRF |-> DVRF]

----------------------------------------------------------------------------
(* calc_rates(day, drv) *)

\* a rate calculation that already advances DVS by the rate it computed
calc_rates_eager(T) ==
    /\ pc = "rates"
    /\ err = "none"
    /\ TEMP' = T
    /\ last' = [op |-> "calc_rates", day |-> day, arg |-> T]
    /\ pre' = Snapshot
    /\ IF LogDefined(T)
       THEN /\ DVR' = _dev_rate_plant(T, DVS)
            /\ DVS' = DVS + _dev_rate_plant(T, DVS)
            /\ DVRF' = FruitRates(T, DVSF)
            /\ pc' = "integrate"
            /\ err' = "none"
       ELSE /\ UNCHANGED <<DVS, DVR, DVRF>>
            /\ pc' = "aborted"
            /\ err' = "ValueError"
    /\ UNCHANGED <<DVSF, DOEL, DOEF, DOHF, DOH, day, finished, hist, start>>

calc_rates(T) ==
    /\ pc = "rates"
    /\ err = "none"
    /\ TEMP' = T
    /\ last' = [op |-> "calc_rates", day |-> day, arg |-> T]
    /\ pre' = Snapshot
    /\ IF LogDefined(T)
       THEN /\ DVR' = _dev_rate_plant(T, DVS)
            /\ DVRF' = FruitRates(T, DVSF)
            /\ pc' = "integrate"
            /\ err' = "none"
       ELSE /\ UNCHANGED <<DVR, DVRF>>
            /\ pc' = "aborted"
            /\ err' = "ValueError"
    /\ UNCHANGED <<DVS, DVSF, DOEL, DOEF, DOHF, DOH, day, finished, hist, start>>

\* calc_rates as CPython runs it: line 68 calls self._dev_rate_plant(drv.TEMP,
\* s.DVS), a function that line 77 declares with the two parameters drvTEMP
\* and sDVS, and the call raises TypeError before r.DVR is assigned
calc_rates_cpython(T) ==
    /\ pc = "rates"
    /\ err = "none"
    /\ TEMP' = T
    /\ last' = [op |-> "calc_rates", day |-> day, arg |-> T]
    /\ pre' = Snapshot
    /\ pc' = "aborted"
    /\ err' = "TypeError"
    /\ UNCHANGED <<DVS, DVSF, DOEL, DOEF, DOHF, DOH, DVR, DVRF, day, finished,
                   hist, start>>

----------------------------------------------------------------------------
(* integrate(day, delt): the bookkeeping works on st = [DOEF, DOEL, err],   *)
(* the two lists as written so far and the exception raised, if any         *)

Raise(st, e) == [st EXCEPT !.err = e]

\* a commit that is lost
CommitLost(sDVS, rDVR) == sDVS

\* a commit that keeps the stage from falling below 0
CommitClamped(sDVS, rDVR) == IF sDVS + rDVR < 0 THEN 0 ELSE sDVS + rDVR

\* line 102: s.DVS += r.DVR
Commit(sDVS, rDVR) == sDVS + rDVR

\* an addition that loses the last fruit of every truss
AddRatesDropLast(sDVSF, rDVRF) ==
    [i \in 0 .. Min(len(sDVSF), len(rDVRF)) - 1 |->
        [j \in 0 .. Min(len(sDVSF[i]), len(rDVRF[i])) - 2 |->
            sDVSF[i][j] + rDVRF[i][j]]]

\* s.DVSF = list(map(lambda l1, l2: [sum(x) for x in zip(l1, l2)], s.DVSF, r.DVRF))
AddRates(sDVSF, rDVRF) ==
    [i \in 0 .. Min(len(sDVSF), len(rDVRF)) - 1 |->
        [j \in 0 .. Min(len(sDVSF[i]), len(rDVRF[i])) - 1 |->
            sDVSF[i][j] + rDVRF[i][j]]]

\* a scan that takes the last unset flower slot
LastUnset(row) ==
    LET unset == {j \in 1 .. len(row) - 1 : row[j] = None}
    IN  IF unset = {} THEN None
        ELSE CHOOSE j \in unset : \A k \in unset : j >= k

\* lines 119-124: the first flower slot j >= 1 that is None, if there is one
FirstUnset(row) ==
    LET unset == {j \in 1 .. len(row) - 1 : row[j] = None}
    IN  IF unset = {} THEN None
        ELSE CHOOSE j \in unset : \A k \in unset : j <= k

\* a first anthesis that writes the leaf date whether or not it is set
FirstAnthesisOverwrite(i, st, d) ==
    LET st1 == [st EXCEPT !.DOEF[i][0] = d]
        u == Idx(st.DOEL, i + 3)
    IN  IF ~Has(st.DOEL, i + 3) THEN Raise(st1, "IndexError")
        ELSE IF ~Has(st.DOEL[u], 0) THEN Raise(st1, "IndexError")
        ELSE [st1 EXCEPT !.DOEL[u][0] = d]

\* lines 127-129: first anthesis of truss i, and the first leaf of unit i+3
FirstAnthesis(i, st, d) ==
    LET st1 == [st EXCEPT !.DOEF[i][0] = d]
        u == Idx(st.DOEL, i + 3)
    IN  IF ~Has(st.DOEL, i + 3) THEN Raise(st1, "IndexError")
        ELSE IF ~Has(st.DOEL[u], 0) THEN Raise(st1, "IndexError")
        ELSE IF st.DOEL[u][0] = None THEN [st1 EXCEPT !.DOEL[u][0] = d]
        ELSE st1

\* a loop body that dates every unset flower of a flowering truss at once
TrussBodyEveryFlower(i, st, d) ==
    IF ~Has(st.DOEF, i) THEN Raise(st, "IndexError")
    ELSE IF ~Has(st.DOEF[i], 0) THEN Raise(st, "IndexError")
    ELSE IF st.DOEF[i][0] # None
         THEN [st EXCEPT !.DOEF[i] =
                  [j \in DOMAIN st.DOEF[i] |->
                      IF st.DOEF[i][j] = None THEN d ELSE st.DOEF[i][j]]]
         ELSE FirstAnthesis(i, st, d)

\* lines 117-129: the body of the loop over the trusses
TrussBody(i, st, d) ==
    IF ~Has(st.DOEF, i) THEN Raise(st, "IndexError")
    ELSE IF ~Has(st.DOEF[i], 0) THEN Raise(st, "IndexError")
    ELSE IF st.DOEF[i][0] # None
         THEN LET j == FirstUnset(st.DOEF[i])
              IN  IF j = None THEN st ELSE [st EXCEPT !.DOEF[i][j] = d]
         ELSE FirstAnthesis(i, st, d)

\* line 116: for i in range(0, int(s.DVS))
RECURSIVE TrussLoop(_, _, _, _)
TrussLoop(i, n, st, d) ==
    IF i >= n \/ st.err # "none" THEN st
    ELSE TrussLoop(i + 1, n, TrussBody(i, st, d), d)

\* leaf counts whose thresholds belong to the lower value
LeafCountStrict(sDVS) ==
    IF (sDVS % Scale) * 3 > 2 * Scale THEN 3
    ELSE IF (sDVS % Scale) * 3 > Scale THEN 2
    ELSE 1

\* lines 131-136
LeafCount(sDVS) ==
    IF (sDVS % Scale) * 3 >= 2 * Scale THEN 3
    ELSE IF (sDVS % Scale) * 3 >= Scale THEN 2
    ELSE 1

\* a back-fill that writes the three slots whether or not they are set
BackFillUnitOverwrite(i, st, d) ==
    IF ~Has(st.DOEL, i) THEN Raise(st, "IndexError")
    ELSE [st EXCEPT !.DOEL[i] = [j \in DOMAIN st.DOEL[i] |-> d]]

\* a back-fill that stops before the third leaf
BackFillUnitTwoLeaves(i, st, d) ==
    IF ~Has(st.DOEL, i) THEN Raise(st, "IndexError")
    ELSE LET row == st.DOEL[i]
             k == Min(2, len(row))
             st1 == [st EXCEPT !.DOEL[i] =
                        [j \in DOMAIN row |->
                            IF j < k /\ row[j] = None THEN d ELSE row[j]]]
         IN  IF k < 2 THEN Raise(st1, "IndexError") ELSE st1

\* lines 138-140: for j in range(0,3): if s.DOEL[i][j] == None: s.DOEL[i][j] = day
BackFillUnit(i, st, d) ==
    IF ~Has(st.DOEL, i) THEN Raise(st, "IndexError")
    ELSE LET row == st.DOEL[i]
             k == Min(3, len(row))
             st1 == [st EXCEPT !.DOEL[i] =
                        [j \in DOMAIN row |->
                            IF j < k /\ row[j] = None THEN d ELSE row[j]]]
         IN  IF k < 3 THEN Raise(st1, "IndexError") ELSE st1

\* line 137: for i in range(0, int(s.DVS+2))
RECURSIVE BackFill(_, _, _, _)
BackFill(i, n, st, d) ==
    IF i >= n \/ st.err # "none" THEN st
    ELSE BackFill(i + 1, n, BackFillUnit(i, st, d), d)

\* a current unit whose third test writes the third leaf
CurrentUnitThirdLeaf(i, nLEAF, st, d) ==
    IF st.err # "none" THEN st
    ELSE IF ~Has(st.DOEL, i) THEN Raise(st, "IndexError")
    ELSE LET u == Idx(st.DOEL, i)
             row == st.DOEL[u]
             st1 == IF row[0] = None THEN [st EXCEPT !.DOEL[u][0] = d] ELSE st
             st2 == IF row[1] = None /\ nLEAF >= 2
                    THEN [st1 EXCEPT !.DOEL[u][1] = d] ELSE st1
             st3 == IF row[2] = None /\ nLEAF = 3
                    THEN [st2 EXCEPT !.DOEL[u][2] = d] ELSE st2
         IN  IF ~Has(row, 0) THEN Raise(st, "IndexError")
             ELSE IF ~Has(row, 1) THEN Raise(st1, "IndexError")
             ELSE IF ~Has(row, 2) THEN Raise(st2, "IndexError")
             ELSE st3

\* lines 142-147, for the unit at index i
CurrentUnit(i, nLEAF, st, d) ==
    IF st.err # "none" THEN st
    ELSE IF ~Has(st.DOEL, i) THEN Raise(st, "IndexError")
    ELSE LET u == Idx(st.DOEL, i)
             row == st.DOEL[u]
             st1 == IF row[0] = None THEN [st EXCEPT !.DOEL[u][0] = d] ELSE st
             st2 == IF row[1] = None /\ nLEAF >= 2
                    THEN [st1 EXCEPT !.DOEL[u][1] = d] ELSE st1
             st3 == IF row[2] = None /\ nLEAF = 3
                    THEN [st2 EXCEPT !.DOEL[u][0] = d] ELSE st2
         IN  IF ~Has(row, 0) THEN Raise(st, "IndexError")
             ELSE IF ~Has(row, 1) THEN Raise(st1, "IndexError")
             ELSE IF ~Has(row, 2) THEN Raise(st2, "IndexError")
             ELSE st3

\* a current unit kept inside the list
CurrentIndexClamped(sDVS) == Min(int(sDVS + 3 * Scale), len(DOEL) - 1)

\* line 141: i = s.DVS + 3, as an index
CurrentIndex(sDVS) == int(sDVS + 3 * Scale)

\* lines 116-147 on the committed DVS
Bookkeeping(sDVS, st, d) ==
    LET st1 == TrussLoop(0, int(sDVS), st, d)
        st2 == BackFill(0, int(sDVS + 2 * Scale), st1, d)
    IN  CurrentUnit(CurrentIndex(sDVS), LeafCount(sDVS), st2, d)

integrate ==
    /\ pc = "integrate"
    /\ err = "none"
    /\ LET sDVS == Commit(DVS, DVR)
           st == Bookkeeping(sDVS, [DOEF |-> DOEF, DOEL |-> DOEL, err |-> "none"], day)
       IN  /\ DVS' = sDVS
           /\ DVSF' = AddRates(DVSF, DVRF)
           /\ DOEF' = st.DOEF
           /\ DOEL' = st.DOEL
           /\ err' = st.err
           /\ pc' = IF st.err = "none" THEN "rates" ELSE "aborted"
           /\ day' = IF st.err = "none" THEN day + 1 ELSE day
           /\ hist' = hist \cup {sDVS}
    /\ last' = [op |-> "integrate", day |-> day, arg |-> TEMP]
    /\ pre' = Snapshot
    /\ UNCHANGED <<DOHF, DOH, DVR, DVRF, TEMP, finished, start>>

----------------------------------------------------------------------------
(* _on_CROP_FINISH(day, finish_type) *)

\* CROP_END_TYPE of line 26, and the default None of line 152
FinishTypes == {"maturity", "harvest", "earliest", "None"}

\* a test that knows harvest only
RecordsHarvestOnly(finish_type) == finish_type \in {"harvest"}

\* line 157: finish_type in ['harvest', 'earliest']
Records(finish_type) == finish_type \in {"harvest", "earliest"}

\* a handler that keeps the first date
FinalizeOnce(doh, d, finish_type) ==
    IF Records(finish_type) /\ doh = None THEN d ELSE doh

\* lines 157-158: the value of self._for_finalize["DOH"] after the handler
Finalize(doh, d, finish_type) == IF Records(finish_type) THEN d ELSE doh

\* a handler that also gives every fruit the harvest day
_on_CROP_FINISH_fruits(d, finish_type) ==
    /\ pc = "rates"
    /\ err = "none"
    /\ finished' = finished + 1
    /\ DOH' = Finalize(DOH, d, finish_type)
    /\ DOHF' = [i \in DOMAIN DOHF |-> [j \in DOMAIN DOHF[i] |->
                   IF Records(finish_type) THEN d ELSE DOHF[i][j]]]
    /\ last' = [op |-> "finish", day |-> d, arg |-> finish_type]
    /\ pre' = Snapshot
    /\ UNCHANGED <<DVS, DVSF, DOEL, DOEF, DVR, DVRF, day, TEMP, pc, err,
                   hist, start>>

_on_CROP_FINISH(d, finish_type) ==
    /\ pc = "rates"
    /\ err = "none"
    /\ finished' = finished + 1
    /\ DOH' = Finalize(DOH, d, finish_type)
    /\ last' = [op |-> "finish", day |-> d, arg |-> finish_type]
    /\ pre' = Snapshot
    /\ UNCHANGED <<DVS, DVSF, DOEL, DOEF, DOHF, DVR, DVRF, day, TEMP, pc, err,
                   hist, start>>

----------------------------------------------------------------------------
(* initialize(day, kiosk, parvalues) *)

\* DVSI
InitDVS == {0, (5 * Scale) \div 6, (5 * Scale) \div 2}

\* the number of outer entries of DOELI and of DOEFI
Caps == {5, MaxCap}

\* DOEFI, DOELI: all unset, or the dates of an earlier run (day 0)
Unset(cap, n) == List(cap, List(n, None))

ResumedDOEF(cap) ==
    [i \in 0 .. cap - 1 |->
        [j \in 0 .. NFlower - 1 |-> IF i = 0 /\ j = 0 THEN 0 ELSE None]]

ResumedDOEL(cap) ==
    [i \in 0 .. cap - 1 |-> [j \in 0 .. 2 |-> IF i <= 3 THEN 0 ELSE None]]

\* dates set out of order: flower 1 before flower 0, leaf 2 before leaf 0
GappyDOEF(cap) ==
    [i \in 0 .. cap - 1 |->
        [j \in 0 .. NFlower - 1 |-> IF i = 0 /\ j = 1 THEN 0 ELSE None]]

GappyDOEL(cap) ==
    [i \in 0 .. cap - 1 |-> [j \in 0 .. 2 |-> IF i >= 3 /\ j = 2 THEN 0 ELSE None]]

Presets == {"unset", "resumed", "gappy"}

InitDOEF(preset, cap) ==
    CASE preset = "unset" -> Unset(cap, NFlower)
      [] preset = "resumed" -> ResumedDOEF(cap)
      [] preset = "gappy" -> GappyDOEF(cap)

InitDOEL(preset, cap) ==
    CASE preset = "unset" -> Unset(cap, 3)
      [] preset = "resumed" -> ResumedDOEL(cap)
      [] preset = "gappy" -> GappyDOEL(cap)

\* DVSFI: fruits at stage 0 and at stage 1/2
InitDVSF ==
    [i \in 0 .. NTruss - 1 |-> [j \in 0 .. NFruit - 1 |-> (j % 2) * (Scale \div 2)]]

\* lines 46-58: the states from the parameters, the rates None
initialize(DVSI, DVSFI, DOELI, DOEFI, DOHFI) ==
    /\ DVS = DVSI
    /\ DVSF = DVSFI
    /\ DOEL = DOELI
    /\ DOEF = DOEFI
    /\ DOHF = DOHFI
    /\ DOH = None
    /\ DVR = None
    /\ DVRF = None
    /\ day = 1
    /\ TEMP = None
    /\ pc = "rates"
    /\ err = "none"
    /\ finished = 0
    /\ last = [op |-> "initialize", day |-> 1, arg |-> None]
    /\ pre = [DVS |-> DVSI, DVSF |-> DVSFI, DOEL |-> DOELI, DOEF |-> DOEFI,
              DOHF |-> DOHFI, DOH |-> None, DVR |-> None, DVRF |-> None]
    /\ hist = {DVSI}
    /\ start = [DVSI |-> DVSI, DOELI |-> DOELI, DOEFI |-> DOEFI]

----------------------------------------------------------------------------
(* The driver: one calc_rates and one integrate per day, the crop-finish    *)
(* notification between two days                                            *)

\* drv.TEMP
Temps == {-5, 0, 5, 20, 10000}

Init ==
    \E DVSI \in InitDVS, preset \in Presets, cap \in Caps :
        initialize(DVSI, InitDVSF, InitDOEL(preset, cap), InitDOEF(preset, cap),
                   List(NTruss, List(NFruit, None)))

Rates == \E T \in Temps : day <= MaxDay /\ calc_rates(T)

Finish ==
    \E d \in {day, day + 1}, finish_type \in FinishTypes :
        finished < MaxFinish /\ _on_CROP_FINISH(d, finish_type)

Next ==
    \/ Rates
    \/ integrate
    \/ Finish

Spec == Init /\ [][Next]_vars

----------------------------------------------------------------------------
(* The same driver over the methods as CPython runs them *)

RatesCPython == \E T \in Temps : day <= MaxDay /\ calc_rates_cpython(T)

NextCPython ==
    \/ RatesCPython
    \/ Finish

SpecCPython == Init /\ [][NextCPython]_vars

----------------------------------------------------------------------------
(* The end-to-end run: DVS 0, 10 trusses of 5 fruits at stage 0, nothing    *)
(* set, 14 units, 20 degrees on each of 60 days                             *)

InitE2E ==
    initialize(0, List(10, List(5, 0)), Unset(14, 3), Unset(14, 5),
               List(10, List(5, None)))

RatesE2E == day <= 60 /\ calc_rates(20)

NextE2E ==
    \/ RatesE2E
    \/ integrate

SpecE2E == InitE2E /\ [][NextE2E]_vars

----------------------------------------------------------------------------
(* Runs that end their first day on and around the thresholds of nLEAF *)

\* the stages the tests of lines 131 and 133 tell apart: fractions 1/3 and
\* 2/3, the stage just below each, and fractions 0.1, 0.34 and 0.67, in the
\* first and in the second truss
LeafStages ==
    LET fractions == {Scale \div 10, Scale \div 3 - 1, Scale \div 3,
                      (34 * Scale) \div 100, (2 * Scale) \div 3 - 1,
                      (2 * Scale) \div 3, (67 * Scale) \div 100}
    IN  {k * Scale + f : k \in {0, 1}, f \in fractions}

\* DVSI from which one day at 20 degrees commits one of these stages, and
\* DVSI 0, from which a day at 5 degrees commits a negative stage
LeafDVS ==
    {0} \cup {x \in 0 .. 2 * Scale : x + _dev_rate_plant(20, x) \in LeafStages}

InitLeaf ==
    \E DVSI \in LeafDVS :
        initialize(DVSI, InitDVSF, Unset(MaxCap, 3), Unset(MaxCap, NFlower),
                   List(NTruss, List(NFruit, None)))

RatesLeaf == \E T \in {5, 20} : day <= MaxDay /\ calc_rates(T)

NextLeaf ==
    \/ RatesLeaf
    \/ integrate

SpecLeaf == InitLeaf /\ [][NextLeaf]_vars

----------------------------------------------------------------------------
(* Properties *)

Floor(x) == x \div Scale

AllUnset(l) == \A i \in DOMAIN l : \A j \in DOMAIN l[i] : l[i][j] = None

C4_NoFatalError ==
    (/\ last.op = "calc_rates" => last.arg > 0
     /\ \A x \in hist :
           x >= 0 /\ len(DOEL) >= Floor(x) + 4 /\ len(DOEF) >= Floor(x) + 4)
    => err = "none"

C9_Finish ==
    last.op = "finish" =>
        IF last.arg \in {"harvest", "earliest"}
        THEN DOH = last.day
        ELSE DOH = pre.DOH

\* a notification of type earliest recorded its day where none was recorded
C9_Witness ==
    /\ last.op = "finish"
    /\ last.arg = "earliest"
    /\ pre.DOH = None
    /\ DOH = last.day
    /\ DOH > 1

\* C10, as claimed: a notification handled after the first one leaves DOH as
\* it was.
C10_SetOnce ==
    (last.op = "finish" /\ finished >= 2) => DOH = pre.DOH

\* C10, amended: a notification handled after the first one sets DOH to its
\* day when its type is harvest or earliest, whatever DOH held, and leaves
\* DOH as it was for every other type.
C10_LastWins ==
    (last.op = "finish" /\ finished >= 2 /\ pre.DOH # None) =>
        /\ last.arg \in {"harvest", "earliest"} => DOH = last.day
        /\ last.arg \in {"maturity", "None"} => DOH = pre.DOH

\* a second notification replaced the day the first had recorded
C10_Witness ==
    /\ last.op = "finish"
    /\ finished = 2
    /\ pre.DOH # None
    /\ DOH # pre.DOH

====
